---- MODULE Spec2Model ----
(***************************************************************************)
(* Model of coach_chatbot.py: text normalisation, the club/city catalog,  *)
(* entity resolution, the SPARQL regex escaper, the coach lookup and the   *)
(* interactive loop of main().                                             *)
(*                                                                         *)
(* A Python str is a sequence of one-character strings.  A Python dict is  *)
(* a sequence of <<key, value>> pairs in insertion order (assigning to an  *)
(* existing key keeps its position).  A JSON object is a function whose    *)
(* DOMAIN is the set of keys present.  None and "" are both <<>>: the code *)
(* only ever tests such values for truthiness.                             *)
(***************************************************************************)
EXTENDS Integers, Sequences, FiniteSets

VARIABLES
    pc,            \* position of main(): start, prompt, query, bio, fatal, exited, crashed
    rows,          \* the bindings the catalog collaborator returned
    clubs,         \* dict normalized name -> official club label
    cities,        \* dict normalized name -> official city label
    user_input,    \* the stripped line read by main()
    entity_label,  \* label returned by extract_entity_from_input
    is_club,       \* flag returned by extract_entity_from_input
    reply,         \* the coach query collaborator's answer, until the pass has printed
    club,          \* club label returned by query_wikidata_for_coach
    coach,         \* coach label returned by query_wikidata_for_coach
    intro,         \* what get_wikipedia_intro returned
    out,           \* what main() printed since it last read a line
    calls,         \* which of input / extract / coach query / biography ran so far
    fnText,        \* argument of the pure function under check
    fnOnce,        \* its result
    fnTwice,       \* the result of applying it to its own result
    fnPc           \* idle, in, once, twice

vars ==
    <<pc, rows, clubs, cities, user_input, entity_label, is_club, reply,
      club, coach, intro, out, calls, fnText, fnOnce, fnTwice, fnPc>>

sessionVars ==
    <<pc, rows, clubs, cities, user_input, entity_label, is_club, reply,
      club, coach, intro, out, calls>>

fnVars ==
    <<fnText, fnOnce, fnTwice, fnPc>>

-----------------------------------------------------------------------------
(* Strings *)

None ==
    <<>>

Truthy(x) ==
    x # <<>>

\* str.lower() on one character
LowerChar(c) ==
    CASE c = "A" -> "a"
      [] c = "B" -> "b"
      [] c = "C" -> "c"
      [] c = "D" -> "d"
      [] c = "E" -> "e"
      [] c = "F" -> "f"
      [] c = "G" -> "g"
      [] c = "H" -> "h"
      [] c = "I" -> "i"
      [] c = "J" -> "j"
      [] c = "K" -> "k"
      [] c = "L" -> "l"
      [] c = "M" -> "m"
      [] c = "N" -> "n"
      [] c = "O" -> "o"
      [] c = "P" -> "p"
      [] c = "Q" -> "q"
      [] c = "R" -> "r"
      [] c = "S" -> "s"
      [] c = "T" -> "t"
      [] c = "U" -> "u"
      [] c = "V" -> "v"
      [] c = "W" -> "w"
      [] c = "X" -> "x"
      [] c = "Y" -> "y"
      [] c = "Z" -> "z"
      [] OTHER -> c

\* str.lower()
Lower(s) ==
    [i \in 1..Len(s) |-> LowerChar(s[i])]

\* the characters str.strip() and the regex class \s treat as whitespace
Whitespace ==
    {" ", "\t", "\n"}

IsSpace(c) ==
    c \in Whitespace

\* str.strip(): drop leading and trailing whitespace
Strip(s) ==
    IF \A i \in 1..Len(s) : IsSpace(s[i]) THEN <<>>
    ELSE SubSeq(s,
                CHOOSE i \in 1..Len(s) :
                    ~IsSpace(s[i]) /\ \A j \in 1..(i - 1) : IsSpace(s[j]),
                CHOOSE i \in 1..Len(s) :
                    ~IsSpace(s[i]) /\ \A j \in (i + 1)..Len(s) : IsSpace(s[j]))

\* Python's `needle in haystack` for strings
Contains(haystack, needle) ==
    \E i \in 1..(Len(haystack) - Len(needle) + 1) :
        SubSeq(haystack, i, i + Len(needle) - 1) = needle

\* str.replace(old, new) for a one-character old
RECURSIVE Replace(_, _, _)
Replace(s, old, new) ==
    IF s = <<>> THEN <<>>
    ELSE (IF Head(s) = old THEN new ELSE <<Head(s)>>) \o Replace(Tail(s), old, new)

-----------------------------------------------------------------------------
(* normalize_text *)

\* the alternatives of the pattern (?:'s|s)$
SuffixAlternatives ==
    {<<"'", "s">>, <<"s">>}

\* re.sub(r"(?:'s|s)$", "", text): the leftmost position from which an
\* alternative reaches the end of the text is the match; it is removed.
\* (text is stripped, so "$" can only match at the very end, and only the
\* last two positions can start a match.)
StripSuffix(text) ==
    LET n    == Len(text)
        hits == {i \in {n - 1, n} \cap (1..n) : SubSeq(text, i, n) \in SuffixAlternatives}
    IN  IF hits = {} THEN text
        ELSE IF (n - 1) \in hits THEN SubSeq(text, 1, n - 2)
        ELSE SubSeq(text, 1, n - 1)

\* a normalize_text that only strips the possessive 's
NormalizePossessiveOnly(text) ==
    LET t == Strip(Lower(text))
    IN  IF Len(t) >= 2 /\ SubSeq(t, Len(t) - 1, Len(t)) = <<"'", "s">>
        THEN SubSeq(t, 1, Len(t) - 2)
        ELSE t

normalize_text(text) ==
    StripSuffix(Strip(Lower(text)))

-----------------------------------------------------------------------------
(* prepare_regex_for_sparql *)

BACKSLASH ==
    "\\"

QUOTE ==
    "\""

\* what the template r'\\\\s+' expands to: two backslashes, "s", "+"
WsToken ==
    <<BACKSLASH, BACKSLASH, "s", "+">>

\* re.sub(r'\s+', r'\\\\s+', s): every maximal whitespace run becomes WsToken
RECURSIVE SubWhitespace(_)
SubWhitespace(s) ==
    IF s = <<>> THEN <<>>
    ELSE IF IsSpace(Head(s))
         THEN IF Len(s) >= 2 /\ IsSpace(s[2])
              THEN SubWhitespace(Tail(s))
              ELSE WsToken \o SubWhitespace(Tail(s))
         ELSE <<Head(s)>> \o SubWhitespace(Tail(s))

\* a prepare_regex_for_sparql that escapes the quotes before the backslashes
PrepareQuotesFirst(text) ==
    SubWhitespace(Replace(Replace(text, QUOTE, <<BACKSLASH, QUOTE>>),
                          BACKSLASH, <<BACKSLASH, BACKSLASH>>))

prepare_regex_for_sparql(text) ==
    SubWhitespace(Replace(Replace(text, BACKSLASH, <<BACKSLASH, BACKSLASH>>),
                          QUOTE, <<BACKSLASH, QUOTE>>))

-----------------------------------------------------------------------------
(* Python dict, insertion-ordered *)

FirstOf(S) ==
    CHOOSE i \in S : \A j \in S : i <= j

DictIndex(d, k) ==
    {i \in 1..Len(d) : d[i][1] = k}

\* a d[k] = v that leaves the value of an existing key alone
DictSetKeepFirst(d, k, v) ==
    IF DictIndex(d, k) # {} THEN d ELSE Append(d, <<k, v>>)

\* d[k] = v: a new key goes last, an existing key keeps its place
DictSet(d, k, v) ==
    IF DictIndex(d, k) # {}
    THEN [d EXCEPT ![FirstOf(DictIndex(d, k))] = <<k, v>>]
    ELSE Append(d, <<k, v>>)

\* obj.get(field, {}).get("value")
Get(obj, field) ==
    IF field \in DOMAIN obj THEN obj[field] ELSE None

-----------------------------------------------------------------------------
(* query_wikidata_for_names *)

\* the body of the loop over the bindings, on <<clubs, cities>>
LoadRow(tables, item) ==
    LET club_label     == Get(item, "clubLabel")
        alt_club_label == Get(item, "altClubLabel")
        city_label     == Get(item, "cityLabel")
        alt_city_label == Get(item, "altCityLabel")
        c1  == IF Truthy(club_label)
               THEN DictSet(tables[1], normalize_text(club_label), club_label)
               ELSE tables[1]
        c2  == IF Truthy(alt_club_label)
               THEN DictSet(c1, normalize_text(alt_club_label), club_label)
               ELSE c1
        ci1 == IF Truthy(city_label)
               THEN DictSet(tables[2], normalize_text(city_label), city_label)
               ELSE tables[2]
        ci2 == IF Truthy(alt_city_label)
               THEN DictSet(ci1, normalize_text(alt_city_label), city_label)
               ELSE ci1
    IN  <<c2, ci2>>

RECURSIVE LoadRows(_, _)
LoadRows(tables, items) ==
    IF items = <<>> THEN tables
    ELSE LoadRows(LoadRow(tables, Head(items)), Tail(items))

\* a RequestException gives ({}, {}); otherwise the two tables
query_wikidata_for_names(resp) ==
    IF resp.status = "error" THEN <<<<>>, <<>>>>
    ELSE LoadRows(<<<<>>, <<>>>>, resp.bindings)

-----------------------------------------------------------------------------
(* extract_entity_from_input *)

PAULI ==
    <<"p", "a", "u", "l", "i">>

ST_PAULI ==
    <<"s", "t", ".", " ", "p", "a", "u", "l", "i">>

\* indices of the entries whose key contains needle
KeysContaining(d, needle) ==
    {i \in 1..Len(d) : Contains(d[i][1], needle)}

\* indices of the entries whose key occurs in text
KeysIn(d, text) ==
    {i \in 1..Len(d) : Contains(text, d[i][1])}

\* an extract_entity_from_input that returns the matched key, not the label
ExtractReturningKey(input, clubTable, cityTable) ==
    LET user_input_norm == normalize_text(input)
    IN  IF Contains(user_input_norm, PAULI) /\ KeysContaining(clubTable, ST_PAULI) # {}
        THEN <<clubTable[FirstOf(KeysContaining(clubTable, ST_PAULI))][1], TRUE>>
        ELSE IF KeysIn(clubTable, user_input_norm) # {}
        THEN <<clubTable[FirstOf(KeysIn(clubTable, user_input_norm))][1], TRUE>>
        ELSE IF KeysIn(cityTable, user_input_norm) # {}
        THEN <<cityTable[FirstOf(KeysIn(cityTable, user_input_norm))][1], FALSE>>
        ELSE <<None, FALSE>>

\* an extract_entity_from_input without the "pauli" special case
ExtractWithoutPauliRule(input, clubTable, cityTable) ==
    LET user_input_norm == normalize_text(input)
    IN  IF KeysIn(clubTable, user_input_norm) # {}
        THEN <<clubTable[FirstOf(KeysIn(clubTable, user_input_norm))][2], TRUE>>
        ELSE IF KeysIn(cityTable, user_input_norm) # {}
        THEN <<cityTable[FirstOf(KeysIn(cityTable, user_input_norm))][2], FALSE>>
        ELSE <<None, FALSE>>

\* an extract_entity_from_input that scans the cities before the clubs
ExtractCitiesFirst(input, clubTable, cityTable) ==
    LET user_input_norm == normalize_text(input)
    IN  IF Contains(user_input_norm, PAULI) /\ KeysContaining(clubTable, ST_PAULI) # {}
        THEN <<clubTable[FirstOf(KeysContaining(clubTable, ST_PAULI))][2], TRUE>>
        ELSE IF KeysIn(cityTable, user_input_norm) # {}
        THEN <<cityTable[FirstOf(KeysIn(cityTable, user_input_norm))][2], FALSE>>
        ELSE IF KeysIn(clubTable, user_input_norm) # {}
        THEN <<clubTable[FirstOf(KeysIn(clubTable, user_input_norm))][2], TRUE>>
        ELSE <<None, FALSE>>

\* returns <<official_name, is_club>>; <<None, FALSE>> stands for (None, None)
extract_entity_from_input(input, clubTable, cityTable) ==
    LET user_input_norm == normalize_text(input)
    IN  IF Contains(user_input_norm, PAULI) /\ KeysContaining(clubTable, ST_PAULI) # {}
        THEN <<clubTable[FirstOf(KeysContaining(clubTable, ST_PAULI))][2], TRUE>>
        ELSE IF KeysIn(clubTable, user_input_norm) # {}
        THEN <<clubTable[FirstOf(KeysIn(clubTable, user_input_norm))][2], TRUE>>
        ELSE IF KeysIn(cityTable, user_input_norm) # {}
        THEN <<cityTable[FirstOf(KeysIn(cityTable, user_input_norm))][2], FALSE>>
        ELSE <<None, FALSE>>

-----------------------------------------------------------------------------
(* query_wikidata_for_coach *)

NotFound ==
    [kind |-> "return", club |-> None, coach |-> None]

\* entry['clubLabel']['value'], entry['coachLabel']['value']: a KeyError when
\* the binding leaves the variable unbound
ReturnEntry(entry) ==
    IF {"clubLabel", "coachLabel"} \subseteq DOMAIN entry
    THEN [kind |-> "return", club |-> entry.clubLabel, coach |-> entry.coachLabel]
    ELSE [kind |-> "raise", error |-> "KeyError"]

\* the loop of the 'St. Pauli' special case, from entry i on
RECURSIVE PauliScan(_, _)
PauliScan(bindings, i) ==
    IF i > Len(bindings) THEN ReturnEntry(bindings[1])
    ELSE IF "clubLabel" \notin DOMAIN bindings[i]
         THEN [kind |-> "raise", error |-> "KeyError"]
         ELSE IF Contains(Lower(bindings[i].clubLabel), ST_PAULI)
              THEN ReturnEntry(bindings[i])
              ELSE PauliScan(bindings, i + 1)

query_wikidata_for_coach(label, isClub, resp) ==
    IF resp.status = "error" THEN NotFound
    ELSE IF resp.bindings = <<>> THEN NotFound
    ELSE IF isClub /\ Lower(label) \in {PAULI, ST_PAULI}
         THEN PauliScan(resp.bindings, 1)
         ELSE ReturnEntry(resp.bindings[1])

-----------------------------------------------------------------------------
(* get_wikipedia_intro *)

get_wikipedia_intro(resp) ==
    IF resp.status = "error"
    THEN [kind |-> "return", text |-> "Wikipedia data not available."]
    ELSE IF resp.pages = <<>>
         THEN [kind |-> "raise", error |-> "StopIteration"]
         ELSE IF "extract" \in DOMAIN resp.pages[1]
              THEN [kind |-> "return", text |-> resp.pages[1].extract]
              ELSE [kind |-> "return", text |-> "No biography intro found on Wikipedia."]

-----------------------------------------------------------------------------
(* Bounds and input alphabets of the pure-function specifications *)

MaxNormLen ==
    4

MaxEscLen ==
    4

NormAlphabet ==
    {"a", "s", "S", "'", " "}

EscAlphabet ==
    {"a", BACKSLASH, QUOTE, " ", "\t"}

StringsOver(alphabet, n) ==
    UNION {[1..k -> alphabet] : k \in 0..n}

SessionIdle ==
    /\ pc = "idle"
    /\ rows = <<>>
    /\ clubs = <<>>
    /\ cities = <<>>
    /\ user_input = None
    /\ entity_label = None
    /\ is_club = FALSE
    /\ reply = [status |-> "none"]
    /\ club = None
    /\ coach = None
    /\ intro = ""
    /\ out = ""
    /\ calls = {}

-----------------------------------------------------------------------------
(* SpecNorm: normalize_text applied once and twice to every short string *)

InitNorm ==
    /\ SessionIdle
    /\ fnText \in StringsOver(NormAlphabet, MaxNormLen)
    /\ fnOnce = <<>>
    /\ fnTwice = <<>>
    /\ fnPc = "in"

NormalizeOnce ==
    /\ fnPc = "in"
    /\ fnOnce' = normalize_text(fnText)
    /\ fnPc' = "once"
    /\ UNCHANGED <<fnText, fnTwice>>
    /\ UNCHANGED sessionVars

NormalizeTwice ==
    /\ fnPc = "once"
    /\ fnTwice' = normalize_text(fnOnce)
    /\ fnPc' = "twice"
    /\ UNCHANGED <<fnText, fnOnce>>
    /\ UNCHANGED sessionVars

NextNorm ==
    \/ NormalizeOnce
    \/ NormalizeTwice

SpecNorm ==
    InitNorm /\ [][NextNorm]_vars

-----------------------------------------------------------------------------
(* SpecEsc: prepare_regex_for_sparql applied to every short label *)

InitEsc ==
    /\ SessionIdle
    /\ fnText \in StringsOver(EscAlphabet, MaxEscLen)
    /\ fnOnce = <<>>
    /\ fnTwice = <<>>
    /\ fnPc = "in"

Escape ==
    /\ fnPc = "in"
    /\ fnOnce' = prepare_regex_for_sparql(fnText)
    /\ fnPc' = "escaped"
    /\ UNCHANGED <<fnText, fnTwice>>
    /\ UNCHANGED sessionVars

NextEsc ==
    Escape

SpecEsc ==
    InitEsc /\ [][NextEsc]_vars

-----------------------------------------------------------------------------
(* What the collaborators and the user may supply *)

MaxRows ==
    2

MaxBindings ==
    2

L_FCStPauli ==
    <<"F", "C", " ", "S", "t", ".", " ", "P", "a", "u", "l", "i">>

L_StPauli ==
    <<"S", "t", ".", " ", "P", "a", "u", "l", "i">>

L_Pauli ==
    <<"P", "a", "u", "l", "i">>

L_SVPauli ==
    <<"S", "V", " ", "P", "a", "u", "l", "i">>

L_UnionBerlin ==
    <<"U", "n", "i", "o", "n", " ", "B", "e", "r", "l", "i", "n">>

L_HerthaBSC ==
    <<"H", "e", "r", "t", "h", "a", " ", "B", "S", "C">>

L_Berlin ==
    <<"B", "e", "r", "l", "i", "n">>

L_Berlins ==
    <<"B", "e", "r", "l", "i", "n", "s">>

L_Hamburg ==
    <<"H", "a", "m", "b", "u", "r", "g">>

Q_Pauli ==
    <<"W", "h", "o", " ", "i", "s", " ", "i", "t", " ", "f", "o", "r", " ",
      "P", "a", "u", "l", "i", "?">>

Q_Unions ==
    <<"U", "n", "i", "o", "n", " ", "B", "e", "r", "l", "i", "n", "s">>

Q_Hello ==
    <<"H", "e", "l", "l", "o">>

EXIT ==
    <<"e", "x", "i", "t">>

Q_ExitPadded ==
    <<" ", "E", "X", "I", "T", " ">>

N_Blessin ==
    <<"B", "l", "e", "s", "s", "i", "n">>

N_Baumgart ==
    <<"B", "a", "u", "m", "g", "a", "r", "t">>

\* rows of the catalog query; an OPTIONAL variable may be unbound
RowStPauli ==
    [clubLabel |-> L_FCStPauli, altClubLabel |-> L_StPauli, cityLabel |-> L_Hamburg]

RowUnion ==
    [clubLabel |-> L_UnionBerlin, altClubLabel |-> L_Berlins, cityLabel |-> L_Berlin]

RowHertha ==
    [clubLabel |-> L_HerthaBSC, altClubLabel |-> L_Berlin, cityLabel |-> L_Berlin]

RowSVPauli ==
    [clubLabel |-> L_SVPauli, altClubLabel |-> L_Pauli, cityLabel |-> L_Hamburg,
     altCityLabel |-> L_Berlins]

RowClubOnly ==
    [clubLabel |-> L_StPauli]

RowUniverse ==
    {RowStPauli, RowUnion, RowHertha, RowSVPauli, RowClubOnly}

SeqsOver(S, n) ==
    UNION {[1..k -> S] : k \in 0..n}

NamesResponses ==
    {[status |-> "error"]} \cup
    {[status |-> "ok", bindings |-> b] : b \in SeqsOver(RowUniverse, MaxRows)}

\* bindings of the coach query; a variable may be unbound
BindingUnion ==
    [clubLabel |-> L_UnionBerlin, coachLabel |-> N_Baumgart]

BindingStPauli ==
    [clubLabel |-> L_FCStPauli, coachLabel |-> N_Blessin]

BindingNoCoach ==
    [clubLabel |-> L_FCStPauli]

BindingUniverse ==
    {BindingUnion, BindingStPauli, BindingNoCoach}

CoachResponses ==
    {[status |-> "error"]} \cup
    {[status |-> "ok", bindings |-> b] : b \in SeqsOver(BindingUniverse, MaxBindings)}

WikipediaResponses ==
    {[status |-> "error"],
     [status |-> "ok", pages |-> <<>>],
     [status |-> "ok", pages |-> <<[title |-> "page"]>>],
     [status |-> "ok", pages |-> <<[title |-> "page", extract |-> "Head coach."]>>]}

Lines ==
    {L_FCStPauli, L_StPauli, L_SVPauli, L_UnionBerlin, L_HerthaBSC, L_Berlin,
     L_Hamburg, Q_Pauli, Q_Unions, Q_Hello, Q_ExitPadded, EXIT}

-----------------------------------------------------------------------------
(* main *)

MsgNoCatalog ==
    "Could not retrieve clubs and cities data. Exiting."

MsgBanner ==
    "Bundesliga Coach Info Bot"

MsgGoodbye ==
    "Goodbye!"

MsgNotRecognized ==
    "No club or city name recognized in your question. Please try again."

MsgNoCoach ==
    "Could not find coach information. Try another query."

MsgAnswer ==
    "Information retrieved"

\* a test that gives up only when both tables are empty
UnusableWhenBothEmpty(clubTable, cityTable) ==
    clubTable = <<>> /\ cityTable = <<>>

\* not clubs or not cities
CatalogUnusable(clubTable, cityTable) ==
    clubTable = <<>> \/ cityTable = <<>>

Init ==
    /\ pc = "start"
    /\ rows = <<>>
    /\ clubs = <<>>
    /\ cities = <<>>
    /\ user_input = None
    /\ entity_label = None
    /\ is_club = FALSE
    /\ reply = [status |-> "none"]
    /\ club = None
    /\ coach = None
    /\ intro = ""
    /\ out = ""
    /\ calls = {}
    /\ fnText = <<>>
    /\ fnOnce = <<>>
    /\ fnTwice = <<>>
    /\ fnPc = "idle"

\* main() up to its loop: build the catalog, give up when it is unusable
Startup ==
    /\ pc = "start"
    /\ \E resp \in NamesResponses :
      \E tables \in {query_wikidata_for_names(resp)} :
            /\ rows' = (IF resp.status = "ok" THEN resp.bindings ELSE <<>>)
            /\ clubs' = tables[1]
            /\ cities' = tables[2]
            /\ IF CatalogUnusable(tables[1], tables[2])
               THEN pc' = "fatal" /\ out' = MsgNoCatalog
               ELSE pc' = "prompt" /\ out' = MsgBanner
    /\ UNCHANGED <<user_input, entity_label, is_club, reply, club, coach, intro, calls>>
    /\ UNCHANGED fnVars

\* one pass of the loop from input() to the coach request: "exit" ends the
\* session, an unrecognized question goes back to the prompt
ReadLine ==
    /\ pc = "prompt"
    /\ \E line \in Lines :
      \E stripped \in {Strip(line)} :
      \E found \in {extract_entity_from_input(stripped, clubs, cities)} :
            /\ user_input' = stripped
            /\ reply' = [status |-> "none"]
            /\ club' = None
            /\ coach' = None
            /\ intro' = ""
            /\ IF Lower(stripped) = EXIT
               THEN /\ pc' = "exited"
                    /\ out' = MsgGoodbye
                    /\ entity_label' = None
                    /\ is_club' = FALSE
                    /\ calls' = calls \cup {"input"}
               ELSE /\ entity_label' = found[1]
                    /\ is_club' = found[2]
                    /\ calls' = calls \cup {"input", "extract"}
                    /\ IF ~Truthy(found[1])
                       THEN pc' = "prompt" /\ out' = MsgNotRecognized
                       ELSE pc' = "query" /\ out' = ""
    /\ UNCHANGED <<rows, clubs, cities>>
    /\ UNCHANGED fnVars

\* query_wikidata_for_coach on the collaborator's answer (the collaborator is
\* free to answer anything, whatever pattern it was sent), and main's test of
\* what it returned; an exception it does not catch ends the process
CoachReply ==
    /\ pc = "query"
    /\ \E resp \in CoachResponses :
      \E r \in {query_wikidata_for_coach(entity_label, is_club, resp)} :
            /\ reply' = resp
            /\ calls' = calls \cup {"coach_query"}
            /\ IF r.kind = "raise"
               THEN /\ pc' = "crashed"
                    /\ out' = r.error
                    /\ UNCHANGED <<club, coach>>
               ELSE /\ club' = r.club
                    /\ coach' = r.coach
                    /\ IF ~Truthy(r.club) \/ ~Truthy(r.coach)
                       THEN pc' = "prompt" /\ out' = MsgNoCoach
                       ELSE pc' = "bio" /\ out' = ""
    /\ UNCHANGED <<rows, clubs, cities, user_input, entity_label, is_club, intro>>
    /\ UNCHANGED fnVars

\* get_wikipedia_intro on the collaborator's answer, then the printed answer
WikipediaReply ==
    /\ pc = "bio"
    /\ \E resp \in WikipediaResponses :
      \E r \in {get_wikipedia_intro(resp)} :
            /\ calls' = calls \cup {"wikipedia"}
            /\ IF r.kind = "raise"
               THEN /\ pc' = "crashed"
                    /\ out' = r.error
                    /\ UNCHANGED <<intro, reply>>
               ELSE /\ pc' = "prompt"
                    /\ out' = MsgAnswer
                    /\ intro' = r.text
                    /\ reply' = [status |-> "none"]
    /\ UNCHANGED <<rows, clubs, cities, user_input, entity_label, is_club, club, coach>>
    /\ UNCHANGED fnVars

Next ==
    \/ Startup
    \/ ReadLine
    \/ CoachReply
    \/ WikipediaReply

Spec ==
    Init /\ [][Next]_vars

-----------------------------------------------------------------------------
(* The catalog as the rows define it, independently of the dict *)

\* the assignments one row makes to the table of `field`, in order
RowInserts(item, field, altField) ==
    (IF Truthy(Get(item, field))
     THEN <<<<normalize_text(Get(item, field)), Get(item, field)>>>> ELSE <<>>)
    \o
    (IF Truthy(Get(item, altField))
     THEN <<<<normalize_text(Get(item, altField)), Get(item, field)>>>> ELSE <<>>)

\* the assignments of the rows from the i-th on
RECURSIVE InsertsFrom(_, _, _, _)
InsertsFrom(items, i, field, altField) ==
    IF i > Len(items) THEN <<>>
    ELSE RowInserts(items[i], field, altField)
         \o InsertsFrom(items, i + 1, field, altField)

ClubInserts ==
    InsertsFrom(rows, 1, "clubLabel", "altClubLabel")

CityInserts ==
    InsertsFrom(rows, 1, "cityLabel", "altCityLabel")

\* the assignments whose key occurs in text
InsertsIn(ins, text) ==
    {i \in 1..Len(ins) : Contains(text, ins[i][1])}

\* the label of the last assignment to key
LastLabel(ins, key) ==
    ins[CHOOSE i \in 1..Len(ins) :
            ins[i][1] = key /\ \A j \in (i + 1)..Len(ins) : ins[j][1] # key][2]

\* the label first-inserted-key-wins gives for text: the one last assigned
\* to the key of the earliest assignment whose key occurs in text
FirstInsertedLabel(ins, text) ==
    \* (a one-element set: the key is computed once)
    CHOOSE label \in {LastLabel(ins, key) : key \in {ins[FirstOf(InsertsIn(ins, text))][1]}} :
        TRUE

\* extract_entity_from_input has just returned entity_label and is_club for
\* user_input
Resolved ==
    pc = "query" \/ (pc = "prompt" /\ out = MsgNotRecognized)

\* query_wikidata_for_names has just returned the tables
CatalogBuilt ==
    pc \in {"prompt", "fatal"} /\ calls = {}

\* the "pauli" special case applies to text
PauliRuleFires(ins, text) ==
    Contains(text, PAULI) /\ \E i \in 1..Len(ins) : Contains(ins[i][1], ST_PAULI)

-----------------------------------------------------------------------------
(* C2 *)

\* C2 as stated: resolving a canonical label L of the club table gives
\* (L, Club), and resolving one of the city table gives (L, City), whatever
\* else the catalog holds.
C2_ResolvesOwnLabel ==
    Resolved =>
        /\ (\E i \in 1..Len(ClubInserts) : ClubInserts[i][2] = user_input)
            => (entity_label = user_input /\ is_club)
        /\ (\E i \in 1..Len(CityInserts) : CityInserts[i][2] = user_input)
            => (entity_label = user_input /\ ~is_club)

\* C2 amended: resolving a canonical label L gives (L, Club) for a club label
\* when the "pauli" rule does not fire and every club entry whose key occurs
\* in normalize(L) was inserted with label L; it gives (L, City) for a city
\* label when the rule does not fire, no club key occurs in normalize(L) and
\* every city entry whose key occurs in normalize(L) was inserted with L.
C2_ResolvesOwnLabelWithoutRival ==
    Resolved =>
        \A norm \in {normalize_text(user_input)} :
        \A ci \in {ClubInserts} :
        \A ti \in {CityInserts} :
            /\ ( /\ \E i \in 1..Len(ci) : ci[i][2] = user_input
                 /\ ~PauliRuleFires(ci, norm)
                 /\ \A i \in InsertsIn(ci, norm) : ci[i][2] = user_input )
               => (entity_label = user_input /\ is_club)
            /\ ( /\ \E i \in 1..Len(ti) : ti[i][2] = user_input
                 /\ ~PauliRuleFires(ci, norm)
                 /\ InsertsIn(ci, norm) = {}
                 /\ \A i \in InsertsIn(ti, norm) : ti[i][2] = user_input )
               => (entity_label = user_input /\ ~is_club)

\* "Union Berlin", inserted with an alias whose key also occurs in it, is
\* resolved to itself in a catalog that holds another club as well
C2_Witness ==
    /\ Resolved
    /\ user_input = L_UnionBerlin
    /\ rows = <<RowStPauli, RowUnion>>
    /\ entity_label = L_UnionBerlin
    /\ is_club

-----------------------------------------------------------------------------
(* C3 *)

\* the bindings of the coach reply whose club label contains "st. pauli"
StPauliBindings ==
    {i \in 1..Len(reply.bindings) :
        Contains(Lower(reply.bindings[i].clubLabel), ST_PAULI)}

\* C3: for a club resolved from a "Pauli" question, when the reply holds
\* several complete bindings of which exactly one, not the first, has a club
\* label containing "st. pauli", the lookup returns that binding's club and
\* coach.
C3_PrefersStPauliBinding ==
    ( /\ reply.status = "ok"
      /\ is_club
      /\ Contains(normalize_text(user_input), PAULI)
      /\ Len(reply.bindings) >= 2
      /\ \A i \in 1..Len(reply.bindings) :
            {"clubLabel", "coachLabel"} \subseteq DOMAIN reply.bindings[i]
      /\ Cardinality(StPauliBindings) = 1
      /\ 1 \notin StPauliBindings )
    => \E k \in StPauliBindings :
          /\ club = reply.bindings[k].clubLabel
          /\ coach = reply.bindings[k].coachLabel

-----------------------------------------------------------------------------
(* C4 *)

\* C4: when the normalized question contains "pauli" and some club key
\* contains "st. pauli", the result is the label of such a key, tagged Club,
\* whatever keys were inserted before it.
C4_PauliRule ==
    ( /\ Resolved
      /\ Contains(normalize_text(user_input), PAULI)
      /\ \E i \in 1..Len(clubs) : Contains(clubs[i][1], ST_PAULI) )
    => /\ is_club
       /\ \E i \in 1..Len(clubs) :
            Contains(clubs[i][1], ST_PAULI) /\ clubs[i][2] = entity_label

\* "Who is it for Pauli?" with the key "pauli" of another club inserted
\* before the first key containing "st. pauli"
C4_Witness ==
    /\ Resolved
    /\ user_input = Q_Pauli
    /\ rows = <<RowSVPauli, RowStPauli>>
    /\ clubs[2] = <<PAULI, L_SVPauli>>
    /\ entity_label = L_FCStPauli
    /\ is_club

-----------------------------------------------------------------------------
(* C5 *)

\* C5: a question in which a club key and a city key both occur resolves to
\* a club label tagged Club; a City result means that no club key occurs in
\* the question and that the "pauli" rule did not fire.
C5_ClubBeforeCity ==
    Resolved =>
        \A norm \in {normalize_text(user_input)} :
            /\ ( /\ \E i \in 1..Len(clubs) : Contains(norm, clubs[i][1])
                 /\ \E i \in 1..Len(cities) : Contains(norm, cities[i][1]) )
               => /\ is_club
                  /\ \E i \in 1..Len(clubs) : clubs[i][2] = entity_label
            /\ (Truthy(entity_label) /\ ~is_club)
               => /\ \A i \in 1..Len(clubs) : ~Contains(norm, clubs[i][1])
                  /\ ~( /\ Contains(norm, PAULI)
                        /\ \E i \in 1..Len(clubs) : Contains(clubs[i][1], ST_PAULI) )
                  /\ \E i \in 1..Len(cities) :
                        Contains(norm, cities[i][1]) /\ cities[i][2] = entity_label

\* "Berlin", a key of the club table (an alias of Hertha BSC) and of the
\* city table, resolves to the club
C5_Witness ==
    /\ Resolved
    /\ user_input = L_Berlin
    /\ \E i \in 1..Len(clubs) : clubs[i][1] = Lower(L_Berlin)
    /\ \E i \in 1..Len(cities) : cities[i][1] = Lower(L_Berlin)
    /\ entity_label = L_HerthaBSC
    /\ is_club

-----------------------------------------------------------------------------
(* C7 *)

\* C7: the coach lookup never raises; on a transport error or an empty reply
\* main reports that no coach was found and prompts again.
C7_LookupNeverRaises ==
    /\ ~(pc = "crashed" /\ out = "KeyError")
    /\ (reply.status = "error" \/ (reply.status = "ok" /\ reply.bindings = <<>>))
       => (pc = "prompt" /\ out = MsgNoCoach)

-----------------------------------------------------------------------------
(* C8 *)

\* C8: once the catalog has been fetched with an empty club table or an empty
\* city table, the session has reported the failure and stopped, and no line
\* was read, no entity resolved, no coach or biography request made.
C8_UnusableCatalogIsFatal ==
    /\ (pc # "start" /\ (clubs = <<>> \/ cities = <<>>))
       => /\ pc = "fatal"
          /\ out = MsgNoCatalog
    /\ pc = "fatal"
       => /\ calls = {}
          /\ user_input = None
          /\ entity_label = None
          /\ reply = [status |-> "none"]
          /\ intro = ""

\* a catalog with a club but no city ended the session
C8_Witness ==
    /\ pc = "fatal"
    /\ clubs # <<>>
    /\ cities = <<>>
    /\ out = MsgNoCatalog

-----------------------------------------------------------------------------
(* C9 *)

\* C9: a session that has entered its loop ends only on the input "exit"
\* (in any case); every other line is handled and followed by a prompt.
C9_EndsOnlyOnExit ==
    pc \in {"exited", "crashed"} => Lower(user_input) = EXIT

-----------------------------------------------------------------------------
(* C10 *)

\* C10: when the "pauli" rule does not fire, the result is the label last
\* assigned to the earliest-inserted club key occurring in the normalized
\* question, else the same for the city table, else nothing; and each key of
\* a table holds the label assigned to it last.
C10_FirstInsertedKeyWins ==
    /\ CatalogBuilt =>
        \A ci \in {ClubInserts} :
        \A ti \in {CityInserts} :
            /\ \A i \in 1..Len(clubs) : clubs[i][2] = LastLabel(ci, clubs[i][1])
            /\ \A i \in 1..Len(cities) : cities[i][2] = LastLabel(ti, cities[i][1])
    /\ Resolved =>
        \A norm \in {normalize_text(user_input)} :
        \A ci \in {ClubInserts} :
        \A ti \in {CityInserts} :
            ~PauliRuleFires(ci, norm) =>
                IF InsertsIn(ci, norm) # {}
                THEN is_club /\ entity_label = FirstInsertedLabel(ci, norm)
                ELSE IF InsertsIn(ti, norm) # {}
                THEN ~is_club /\ entity_label = FirstInsertedLabel(ti, norm)
                ELSE entity_label = None

\* "Union Berlin": the shorter key "berlin" was inserted first (for Hertha
\* BSC) and assigned again later (for Union Berlin); it wins over the longer
\* key "union berlin" and gives the later label
C10_Witness ==
    /\ Resolved
    /\ user_input = L_UnionBerlin
    /\ rows = <<RowHertha, RowUnion>>
    /\ clubs[2] = <<Lower(L_Berlin), L_UnionBerlin>>
    /\ clubs[3] = <<Lower(L_UnionBerlin), L_UnionBerlin>>
    /\ entity_label = L_UnionBerlin
    /\ is_club

-----------------------------------------------------------------------------
(* C1 *)

EndsWithS(s) ==
    Len(s) >= 1 /\ s[Len(s)] = "s"

EndsWithSpace(s) ==
    Len(s) >= 1 /\ IsSpace(s[Len(s)])

\* C1 as stated: normalize_text is idempotent,
\* normalize(normalize(s)) = normalize(s) for every string s.
C1_Idempotent ==
    fnPc = "twice" => fnTwice = fnOnce

\* C1 amended: normalize(normalize(s)) = normalize(s) exactly when
\* normalize(s) ends neither in "s" nor in whitespace; otherwise the second
\* application strips more.
C1_IdempotentUnlessStrippable ==
    fnPc = "twice" =>
        ((fnTwice = fnOnce) <=> ~(EndsWithS(fnOnce) \/ EndsWithSpace(fnOnce)))

\* a string ending in "ss" was normalized twice and lost a second "s"
C1_Witness ==
    /\ fnPc = "twice"
    /\ Len(fnText) >= 2
    /\ SubSeq(fnText, Len(fnText) - 1, Len(fnText)) = <<"s", "s">>
    /\ fnTwice # fnOnce

-----------------------------------------------------------------------------
(* C6 *)

\* every backslash of s starts a pair: it is followed by a backslash or by a
\* double quote, and every double quote is the second character of a pair
RECURSIVE WellEscaped(_)
WellEscaped(s) ==
    IF s = <<>> THEN TRUE
    ELSE IF Head(s) = BACKSLASH
         THEN /\ Len(s) >= 2
              /\ s[2] \in {BACKSLASH, QUOTE}
              /\ WellEscaped(SubSeq(s, 3, Len(s)))
         ELSE Head(s) # QUOTE /\ WellEscaped(Tail(s))

\* the positions of s where a maximal whitespace run starts
RunStarts(s) ==
    {i \in 1..Len(s) : IsSpace(s[i]) /\ (i = 1 \/ ~IsSpace(s[i - 1]))}

\* what input position i contributes to the output: a backslash or a quote
\* its two-character escape, the start of a whitespace run the token, the
\* rest of the run nothing
CharImage(s, i) ==
    IF IsSpace(s[i]) THEN (IF i \in RunStarts(s) THEN WsToken ELSE <<>>)
    ELSE IF s[i] = BACKSLASH THEN <<BACKSLASH, BACKSLASH>>
    ELSE IF s[i] = QUOTE THEN <<BACKSLASH, QUOTE>>
    ELSE <<s[i]>>

RECURSIVE ImagesFrom(_, _)
ImagesFrom(s, i) ==
    IF i > Len(s) THEN <<>> ELSE CharImage(s, i) \o ImagesFrom(s, i + 1)

\* C6: the escaped label has every double quote behind an escaping backslash,
\* no lone backslash, no raw whitespace, and is the label with each backslash
\* doubled, each quote escaped and each maximal whitespace run replaced by
\* exactly one token of two backslashes followed by "s+".
C6_EscapedSafely ==
    fnPc = "escaped" =>
        /\ WellEscaped(fnOnce)
        /\ \A i \in 1..Len(fnOnce) : ~IsSpace(fnOnce[i])
        /\ fnOnce = ImagesFrom(fnText, 1)

\* a label with a backslash, a quote and a run of two whitespace characters
C6_Witness ==
    /\ fnPc = "escaped"
    /\ \E i \in 1..Len(fnText) : fnText[i] = BACKSLASH
    /\ \E i \in 1..Len(fnText) : fnText[i] = QUOTE
    /\ \E i \in 1..(Len(fnText) - 1) : IsSpace(fnText[i]) /\ IsSpace(fnText[i + 1])

====
